---- MODULE Spec2Model ----
(***************************************************************************)
(* bergamot: a multi-monitor status bar.  Three threads share a widget     *)
(* list (Mutex<Vec<Widget>>) and a list of painted regions                 *)
(* (Mutex<Vec<Paint>>):                                                    *)
(*   - the stdin thread decodes one command per line (Draw / Update),      *)
(*     changes the widget list and sends a redraw notification;            *)
(*   - the draw thread receives notifications, lays the widgets out on     *)
(*     every output (display) and replaces the list of Paints;             *)
(*   - the main thread handles X events: Expose asks for a redraw,         *)
(*     ButtonPress hit-tests the Paints and prints the click handlers.     *)
(*                                                                         *)
(* Coordinates are f64 in the program.  Every length the program computes  *)
(* is an integer number of pixels or half of one (width / 2.0), so the     *)
(* model counts in half pixels: Px(n) is n pixels, HalfOf(v) is v / 2.0.   *)
(* Colours only select the cairo source colour and are carried in the      *)
(* Areas unchanged; the cairo and pango calls themselves are the external  *)
(* canvas and appear as the pc values of the draw thread.                  *)
(***************************************************************************)
EXTENDS Integers, Sequences, FiniteSets, TLC

VARIABLES
    widgets,      \* Arc<Mutex<Vec<Widget>>>: the content
    wlock,        \* ... and the thread holding its mutex ("none" if free)
    paints,       \* Arc<Mutex<Vec<Paint>>>: the content
    plock,        \* ... and the thread holding its mutex
    chan,         \* mpsc channel of (): number of unreceived notifications
    rpc,          \* stdin thread: position in its loop body
    line,         \* stdin thread: the line of the current iteration
    cmd,          \* stdin thread: the command decoded from it
    dpc,          \* draw thread: position in its loop body
    new_paints,   \* draw thread: the local new_paints
    mpc,          \* main thread: position in its loop body
    evt,          \* main thread: the event being handled
    selected,     \* main thread: the Option<&Paint> the hit test returned
    emitted,      \* main thread: lines printed while handling evt
    \* History variables (no code writes them):
    rres,         \* how the handling of the current line ended
    before,       \* widgets, nsent and rres as they were when line was read
    nlines,       \* lines read from stdin so far
    nsent,        \* tx.send(()) calls made by the stdin thread so far
    nok,          \* commands that succeeded so far
    painted,      \* the widget list the content of paints was computed from
    painted_nok   \* ... and the value of nok when that list was read

vars == <<widgets, wlock, paints, plock, chan, rpc, line, cmd, dpc, new_paints,
          mpc, evt, selected, emitted, rres, before, nlines, nsent, nok,
          painted, painted_nok>>

\* The variables of each thread, and the history of the stdin thread.
rvars == <<rpc, line, cmd>>
rhist == <<rres, before, nlines, nsent, nok>>
dvars == <<dpc, new_paints>>
mvars == <<mpc, evt, selected, emitted>>

-----------------------------------------------------------------------------
(* Bounds of the model.                                                    *)

\* Longest widget list a Draw command carries.
MaxWidgets == 2
\* Lines that arrive on stdin before it is closed.
MaxLines == 2
\* Expose events arrive only while fewer notifications than this are queued.
MaxPending == 2

-----------------------------------------------------------------------------
(* Generic helpers.                                                        *)

None == <<>>
Some(v) == <<v>>

Px(n) == 2 * n
HalfOf(v) == v \div 2

RECURSIVE SumSeq(_)
SumSeq(s) == IF s = <<>> THEN 0 ELSE Head(s) + SumSeq(Tail(s))

RECURSIVE Concat(_)
Concat(ss) == IF ss = <<>> THEN <<>> ELSE Head(ss) \o Concat(Tail(ss))

Map(F(_), s) == [i \in 1..Len(s) |-> F(s[i])]

SeqsUpTo(S, n) == UNION {[1..k -> S] : k \in 0..n}

-----------------------------------------------------------------------------
(* Data model: lib.rs.                                                     *)

Alignment == {"left", "center", "right"}

is_center(alignment) == alignment = "center"

is_right(alignment) == alignment = "right"

ClickHandler(button, output) == [button |-> button, output |-> output]

Area(text, colours, on_click) ==
    [text |-> text, colours |-> colours, on_click |-> on_click]

\* constraints is the Vec<Constraint>; Monitor(n) is its only variant, so a
\* constraint is represented by the monitor number it carries.
Widget(tag, alignment, content, constraints) ==
    [tag |-> tag, alignment |-> alignment, content |-> content,
     constraints |-> constraints]

\* Constraints::monitor: the MonitorConstraints of the list, in order.
monitor(constraints) == constraints

Paint(left, right, win, area) ==
    [left |-> left, right |-> right, win |-> win, area |-> area]

Rectangle(x, y, width, height) ==
    [x |-> x, y |-> y, width |-> width, height |-> height]

Config(height, font_str) == [height |-> height, font_str |-> font_str]

\* The three per-output configurations of main.
cfgs == << Config(14, "Iosevka Term 9"),
           Config(18, "Iosevka Term 12"),
           Config(18, "Iosevka Term 12") >>

\* get_rectangles: the CRTC rectangles as RandR reports them (pixels).
rectangles == << Rectangle(300, 0, 100, 600),
                 Rectangle(100, 0, 200, 800),
                 Rectangle(0, 0, 100, 600) >>

\* rectangles.sort_by with a comparator that answers Less on every branch:
\* the insertion sort std uses for short slices moves each element in front
\* of all earlier ones, which reverses the slice.
sort_by_always_less(rs) == [i \in 1..Len(rs) |-> rs[Len(rs) + 1 - i]]

\* conn.generate_id(): a fresh X id per window.
generate_id(i) == 4194304 + i

Min(a, b) == IF a <= b THEN a ELSE b

\* create_output_windows: one Output per (rectangle, config) pair of the zip.
create_output_windows(configs, rects) ==
    LET sorted == sort_by_always_less(rects)
    IN  [i \in 1..Min(Len(sorted), Len(configs)) |->
            [rect |-> Rectangle(Px(sorted[i].x), Px(sorted[i].y),
                                Px(sorted[i].width), Px(sorted[i].height)),
             win  |-> generate_id(i),
             cfg  |-> configs[i]]]

windows == create_output_windows(cfgs, rectangles)

\* pango's pixel_size of a text: the fonts are monospaced, so the width is
\* the number of characters times the advance of the output's font.
pixel_size(font_str, text) ==
    LET advance == IF font_str = "Iosevka Term 9" THEN 5 ELSE 10
    IN  [w |-> Len(text) * advance, h |-> 2 * advance]

\* Layout::new: area_width = w + 10.
LayoutNew(output, area) ==
    LET sz == pixel_size(output.cfg.font_str, area.text)
    IN  [width |-> Px(sz.w + 10), height |-> Px(sz.h)]

-----------------------------------------------------------------------------
(* Cursors: lib.rs.                                                        *)

bump_left_no_advance(cursors, by) ==
    [range |-> <<cursors.left, cursors.left + by>>, cursors |-> cursors]

bump_left(cursors, by) ==
    [range |-> <<cursors.left, cursors.left + by>>,
     cursors |-> [cursors EXCEPT !.left = @ + by]]

bump_right_backwards(cursors, by) ==
    [range |-> <<cursors.right, cursors.right - by>>,
     cursors |-> [cursors EXCEPT !.right = @ - by]]

bump_right(cursors, by) ==
    [range |-> <<cursors.right, cursors.right + by>>,
     cursors |-> [cursors EXCEPT !.right = @ + by]]

bump_center(cursors, by) ==
    [range |-> <<cursors.center, cursors.center + by>>,
     cursors |-> [cursors EXCEPT !.center = @ + by]]

\* The Rectangle made, and the cursors as the call leaves them.
make_bounding_rectangle(cursors, widget, layout) ==
    LET b == CASE widget.alignment = "left" -> bump_left(cursors, layout.width)
               [] widget.alignment = "right" -> bump_right(cursors, layout.width)
               [] widget.alignment = "center" -> bump_center(cursors, layout.width)
    IN  [rect |-> Rectangle(b.range[1], b.cursors.top,
                            b.range[2] - b.range[1],
                            b.cursors.bottom - b.cursors.top),
         cursors |-> b.cursors]

-----------------------------------------------------------------------------
(* display: bin/bergamot.rs.                                               *)

\* widgets.iter().flat_map(|w| w.content.iter().map(|a| (w, a, Layout))):
\* widx and aidx are the positions the item was taken from.
Items(output, ws) ==
    Concat([i \in 1..Len(ws) |->
              [j \in 1..Len(ws[i].content) |->
                  [widget |-> ws[i], area |-> ws[i].content[j],
                   layout |-> LayoutNew(output, ws[i].content[j]),
                   widx |-> i, aidx |-> j]]])

\* The seeding of the cursors for one output.
SeedCursors(output, centered, right) ==
    LET center_width == SumSeq(Map(LAMBDA it : it.layout.width, centered))
        right_width  == SumSeq(Map(LAMBDA it : it.layout.width, right))
    IN  [top    |-> 0,
         bottom |-> Px(output.cfg.height),
         left   |-> 0,
         center |-> HalfOf(output.rect.width) - HalfOf(center_width),
         right  |-> output.rect.width - right_width]

Skipped_one_based(widget, output_no) ==
    LET monitor_constaints == monitor(widget.constraints)
    IN  /\ monitor_constaints # <<>>
        /\ ~ \E k \in 1..Len(monitor_constaints) :
               monitor_constaints[k] = output_no + 1

\* The `continue` of the paint loop: the widget has monitor constraints and
\* none of them names this output.
Skipped(widget, output_no) ==
    LET monitor_constaints == monitor(widget.constraints)
    IN  /\ monitor_constaints # <<>>
        /\ ~ \E k \in 1..Len(monitor_constaints) :
               monitor_constaints[k] = output_no

\* The paint loop over left.chain(right).chain(centered): the placements
\* pushed, each the Paint with the position of its widget and area.
RECURSIVE PaintLoop(_, _, _, _)
PaintLoop(items, cursors, output_no, output) ==
    IF items = <<>> THEN <<>>
    ELSE LET it == Head(items)
         IN  IF Skipped(it.widget, output_no)
             THEN PaintLoop(Tail(items), cursors, output_no, output)
             ELSE LET m == make_bounding_rectangle(cursors, it.widget, it.layout)
                  IN  << [paint |-> Paint(m.rect.x, m.rect.x + m.rect.width,
                                          output.win, it.area),
                          output_no |-> output_no,
                          widx |-> it.widx, aidx |-> it.aidx] >>
                      \o PaintLoop(Tail(items), m.cursors, output_no, output)

DisplayOutput_centered_first(output_no, output, ws) ==
    LET all        == Items(output, ws)
        centered   == SelectSeq(all, LAMBDA it : is_center(it.widget.alignment))
        uncentered == SelectSeq(all, LAMBDA it : ~ is_center(it.widget.alignment))
        right      == SelectSeq(uncentered, LAMBDA it : is_right(it.widget.alignment))
        left       == SelectSeq(uncentered, LAMBDA it : ~ is_right(it.widget.alignment))
    IN  PaintLoop(centered \o left \o right,
                  SeedCursors(output, centered, right), output_no, output)

\* One iteration of the loop over the outputs.
DisplayOutput(output_no, output, ws) ==
    LET all        == Items(output, ws)
        centered   == SelectSeq(all, LAMBDA it : is_center(it.widget.alignment))
        uncentered == SelectSeq(all, LAMBDA it : ~ is_center(it.widget.alignment))
        right      == SelectSeq(uncentered, LAMBDA it : is_right(it.widget.alignment))
        left       == SelectSeq(uncentered, LAMBDA it : ~ is_right(it.widget.alignment))
    IN  PaintLoop(left \o right \o centered,
                  SeedCursors(output, centered, right), output_no, output)

\* The placements of a whole pass, outputs in the order of the Vec<Output>;
\* output_no is the 0-based index enumerate() gives.
Placements(outs, ws) ==
    Concat([i \in 1..Len(outs) |-> DisplayOutput(i - 1, outs[i], ws)])

\* display: the Vec<Paint> returned.
display(outs, ws) == Map(LAMBDA pl : pl.paint, Placements(outs, ws))

-----------------------------------------------------------------------------
(* Inputs: the Areas, Widgets, command lines and X events of the model.    *)

NoColours == [fg |-> None, bg |-> None]

\* 100 px wide under the 12 pt font, 55 px under the 9 pt font.
AreaL == Area("LLLLLLLLL", NoColours,
              << ClickHandler("left", "l1"), ClickHandler("right", "r1"),
                 ClickHandler("left", "l2") >>)
\* 20 px / 15 px.
AreaB == Area("B", NoColours, <<>>)
\* 40 px / 25 px.
AreaC == Area("CCC", [fg |-> None, bg |-> Some("#102030")],
              << ClickHandler("left", "c1") >>)
\* 20 px / 15 px.
AreaD == Area("D", NoColours, << ClickHandler("middle", "d1") >>)

WidgetPalette ==
    { Widget("a", "left",   <<AreaL>>,        <<>>),
      Widget("b", "left",   <<AreaB, AreaC>>, <<1>>),
      Widget("c", "right",  <<AreaB>>,        <<>>),
      Widget("",  "right",  <<AreaC>>,        <<0, 2>>),
      Widget("d", "center", <<AreaD>>,        <<>>),
      Widget("a", "center", <<AreaC>>,        <<1>>) }

\* The widgets the command lines of the model carry.
CmdWidgets ==
    { w \in WidgetPalette : w.tag = "" \/ (w.tag = "a" /\ w.alignment = "left") }

CmdContents == { <<>>, <<AreaB, AreaD>> }

CmdTags == {"", "a", "zz"}

\* An item of stdin.lines(), by what the loop makes of it: a well-formed
\* command object, an object whose "type" names no variant of Command, text
\* that is no JSON at all, or an Err (bytes that are no UTF-8 text).
DrawLine(ws) == [type |-> "draw", widgets |-> ws]
UpdateLine(tag, content) == [type |-> "update", tag |-> tag, content |-> content]

Lines ==
    {DrawLine(ws) : ws \in SeqsUpTo(CmdWidgets, MaxWidgets)}
    \cup {UpdateLine(t, c) : t \in CmdTags, c \in CmdContents}
    \cup {[type |-> "clear"], [type |-> "not json"], [type |-> "unreadable"]}

\* serde_json::from_str::<Command>: Ok(command) or Err.
from_str(l) ==
    CASE l.type = "draw" ->
            [ok |-> TRUE, command |-> [type |-> "draw", widgets |-> l.widgets]]
      [] l.type = "update" ->
            [ok |-> TRUE, command |-> [type |-> "update", tag |-> l.tag,
                                       content |-> l.content]]
      [] OTHER -> [ok |-> FALSE]

NoCommand == [type |-> "none"]
NoLine == [type |-> "none"]

\* X events.  A ButtonPress carries the window, event_x (pixels) and detail.
Expose == [kind |-> "Expose"]
ButtonPress(win, x, detail) ==
    [kind |-> "ButtonPress", win |-> win, x |-> x, detail |-> detail]
OtherEvent == [kind |-> "KeyPress"]
NoEvent == [kind |-> "none"]

ClickXs == {10, 50, 110}
Details == {1, 3, 8}

Presses ==
    {ButtonPress(windows[i].win, x, d) :
        i \in 1..Len(windows), x \in ClickXs, d \in Details}

Events == {Expose, OtherEvent} \cup Presses

-----------------------------------------------------------------------------
(* The stdin thread: bin/bergamot.rs 122-166.                              *)

\* widgets.iter_mut().find(|w| w.tag == tag): the index of the first match.
find(ws, tag) ==
    LET hits == {i \in 1..Len(ws) : ws[i].tag = tag}
    IN  IF hits = {} THEN None
        ELSE Some(CHOOSE i \in hits : \A j \in hits : i <= j)

set_content_every(ws, i, content) ==
    [k \in 1..Len(ws) |-> [ws[k] EXCEPT !.content = content]]

\* widget.content = content, on the widget found.
set_content(ws, i, content) == [ws EXCEPT ![i].content = content]

replace_widgets_extend(ws, new_widgets) == ws \o new_widgets

\* widgets.clear(); *widgets = new_widgets;
replace_widgets(ws, new_widgets) == new_widgets

\* What the interface calls a successful command: any Draw, and an Update
\* whose tag is not empty and is the tag of a widget of the list.
Succeeds(c, ws) ==
    \/ c.type = "draw"
    \/ /\ c.type = "update"
       /\ c.tag # ""
       /\ \E i \in 1..Len(ws) : ws[i].tag = c.tag

\* The test `tag == ""` of the Update arm.
IsUntagged_never(c) == FALSE

IsUntagged(c) == c.type = "update" /\ c.tag = ""

\* for line in stdin.lines(): the next item arrives.  An Err item (a line
\* that is not UTF-8) fails `if let Ok(line)` and is skipped without a word.
ReadLine(l) ==
    /\ rpc = "wait"
    /\ nlines < MaxLines
    /\ line' = l
    /\ cmd' = NoCommand
    /\ IF l.type = "unreadable"
       THEN rpc' = "wait" /\ rres' = "skipped"
       ELSE rpc' = "decode" /\ rres' = "none"
    /\ before' = [widgets |-> widgets, nsent |-> nsent, rres |-> rres]
    /\ nlines' = nlines + 1
    /\ UNCHANGED <<widgets, wlock, paints, plock, chan, nsent, nok,
                   painted, painted_nok>>
    /\ UNCHANGED <<dvars, mvars>>

Decode_unwrap ==
    /\ rpc = "decode"
    /\ LET r == from_str(line)
       IN  IF r.ok
           THEN /\ cmd' = r.command
                /\ rpc' = "match"
                /\ UNCHANGED rres
           ELSE /\ rres' = "decode_error"
                /\ rpc' = "panicked"
                /\ UNCHANGED cmd
    /\ UNCHANGED <<widgets, wlock, paints, plock, chan, line, before, nlines,
                   nsent, nok, painted, painted_nok>>
    /\ UNCHANGED <<dvars, mvars>>

\* serde_json::from_str(&line): Err is reported on stderr and the loop goes
\* on with the next line.
Decode ==
    /\ rpc = "decode"
    /\ LET r == from_str(line)
       IN  IF r.ok
           THEN /\ cmd' = r.command
                /\ rpc' = "match"
                /\ UNCHANGED rres
           ELSE /\ rres' = "decode_error"
                /\ rpc' = "wait"
                /\ UNCHANGED cmd
    /\ UNCHANGED <<widgets, wlock, paints, plock, chan, line, before, nlines,
                   nsent, nok, painted, painted_nok>>
    /\ UNCHANGED <<dvars, mvars>>

\* if tag == "" { eprintln!(..); continue; }
RejectUntagged ==
    /\ rpc = "match"
    /\ IsUntagged(cmd)
    /\ rres' = "untagged"
    /\ rpc' = "wait"
    /\ UNCHANGED <<widgets, wlock, paints, plock, chan, line, cmd, before,
                   nlines, nsent, nok, painted, painted_nok>>
    /\ UNCHANGED <<dvars, mvars>>

\* let mut widgets = widgets.lock().unwrap();  (either arm)
ReaderLock ==
    /\ rpc = "match"
    /\ ~ IsUntagged(cmd)
    /\ wlock = "none"
    /\ wlock' = "stdin"
    /\ rpc' = "apply"
    /\ UNCHANGED <<widgets, paints, plock, chan, line, cmd,
                   painted, painted_nok>>
    /\ UNCHANGED <<rhist, dvars, mvars>>

ApplyUpdate_no_send ==
    /\ rpc = "apply"
    /\ cmd.type = "update"
    /\ LET widget == find(widgets, cmd.tag)
       IN  IF widget # None
           THEN /\ widgets' = set_content(widgets, widget[1], cmd.content)
                /\ rres' = "updated"
           ELSE /\ rres' = "no_such_widget"
                /\ UNCHANGED widgets
    /\ nok' = nok + (IF Succeeds(cmd, widgets) THEN 1 ELSE 0)
    /\ rpc' = "unlock"
    /\ UNCHANGED <<wlock, paints, plock, chan, nsent, line, cmd, before,
                   nlines, painted, painted_nok>>
    /\ UNCHANGED <<dvars, mvars>>

\* Command::Update, under the lock.
ApplyUpdate ==
    /\ rpc = "apply"
    /\ cmd.type = "update"
    /\ LET widget == find(widgets, cmd.tag)
       IN  IF widget # None
           THEN /\ widgets' = set_content(widgets, widget[1], cmd.content)
                /\ chan' = chan + 1
                /\ nsent' = nsent + 1
                /\ rres' = "updated"
           ELSE /\ rres' = "no_such_widget"
                /\ UNCHANGED <<widgets, chan, nsent>>
    /\ nok' = nok + (IF Succeeds(cmd, widgets) THEN 1 ELSE 0)
    /\ rpc' = "unlock"
    /\ UNCHANGED <<wlock, paints, plock, line, cmd, before, nlines,
                   painted, painted_nok>>
    /\ UNCHANGED <<dvars, mvars>>

ApplyDraw_no_send ==
    /\ rpc = "apply"
    /\ cmd.type = "draw"
    /\ widgets' = replace_widgets(widgets, cmd.widgets)
    /\ rres' = "drawn"
    /\ nok' = nok + (IF Succeeds(cmd, widgets) THEN 1 ELSE 0)
    /\ rpc' = "unlock"
    /\ UNCHANGED <<wlock, paints, plock, chan, nsent, line, cmd, before,
                   nlines, painted, painted_nok>>
    /\ UNCHANGED <<dvars, mvars>>

\* Command::Draw, under the lock.
ApplyDraw ==
    /\ rpc = "apply"
    /\ cmd.type = "draw"
    /\ widgets' = replace_widgets(widgets, cmd.widgets)
    /\ chan' = chan + 1
    /\ nsent' = nsent + 1
    /\ rres' = "drawn"
    /\ nok' = nok + (IF Succeeds(cmd, widgets) THEN 1 ELSE 0)
    /\ rpc' = "unlock"
    /\ UNCHANGED <<wlock, paints, plock, line, cmd, before, nlines,
                   painted, painted_nok>>
    /\ UNCHANGED <<dvars, mvars>>

\* The MutexGuard is dropped at the end of the match arm.
ReaderUnlock ==
    /\ rpc = "unlock"
    /\ wlock' = "none"
    /\ rpc' = "wait"
    /\ UNCHANGED <<widgets, paints, plock, chan, line, cmd,
                   painted, painted_nok>>
    /\ UNCHANGED <<rhist, dvars, mvars>>

\* stdin.lines() ends: the thread returns.
ReaderEof ==
    /\ rpc = "wait"
    /\ rpc' = "done"
    /\ UNCHANGED <<widgets, wlock, paints, plock, chan, line, cmd,
                   painted, painted_nok>>
    /\ UNCHANGED <<rhist, dvars, mvars>>

-----------------------------------------------------------------------------
(* The draw thread: bin/bergamot.rs 168-182.                               *)

DrawRecv_while_input ==
    /\ dpc = "recv"
    /\ rpc # "done"
    /\ chan > 0
    /\ chan' = chan - 1
    /\ dpc' = "lock_widgets"
    /\ UNCHANGED <<widgets, wlock, paints, plock, new_paints,
                   painted, painted_nok>>
    /\ UNCHANGED <<rvars, rhist, mvars>>

\* rx.recv()
DrawRecv ==
    /\ dpc = "recv"
    /\ chan > 0
    /\ chan' = chan - 1
    /\ dpc' = "lock_widgets"
    /\ UNCHANGED <<widgets, wlock, paints, plock, new_paints,
                   painted, painted_nok>>
    /\ UNCHANGED <<rvars, rhist, mvars>>

\* let widgets = widgets.lock().unwrap();
DrawLockWidgets ==
    /\ dpc = "lock_widgets"
    /\ wlock = "none"
    /\ wlock' = "draw"
    /\ dpc' = "display"
    /\ UNCHANGED <<widgets, paints, plock, chan, new_paints,
                   painted, painted_nok>>
    /\ UNCHANGED <<rvars, rhist, mvars>>

\* let new_paints = display(&windows, &widgets);
DrawDisplay ==
    /\ dpc = "display"
    /\ new_paints' = display(windows, widgets)
    /\ dpc' = "flush"
    /\ UNCHANGED <<widgets, wlock, paints, plock, chan, painted, painted_nok>>
    /\ UNCHANGED <<rvars, rhist, mvars>>

\* conn.flush();
DrawFlush ==
    /\ dpc = "flush"
    /\ dpc' = "lock_paints"
    /\ UNCHANGED <<widgets, wlock, paints, plock, chan, new_paints,
                   painted, painted_nok>>
    /\ UNCHANGED <<rvars, rhist, mvars>>

\* let mut paints = paints.lock().unwrap();
DrawLockPaints ==
    /\ dpc = "lock_paints"
    /\ plock = "none"
    /\ plock' = "draw"
    /\ dpc' = "replace"
    /\ UNCHANGED <<widgets, wlock, paints, chan, new_paints,
                   painted, painted_nok>>
    /\ UNCHANGED <<rvars, rhist, mvars>>

DrawReplace_extend ==
    /\ dpc = "replace"
    /\ paints' = paints \o new_paints
    /\ painted' = Some(widgets)
    /\ painted_nok' = nok
    /\ new_paints' = <<>>
    /\ plock' = "none"
    /\ wlock' = "none"
    /\ dpc' = "recv"
    /\ UNCHANGED <<widgets, chan>>
    /\ UNCHANGED <<rvars, rhist, mvars>>

\* std::mem::replace(&mut *paints, new_paints); then the loop body ends and
\* both guards are dropped.
DrawReplace ==
    /\ dpc = "replace"
    /\ paints' = new_paints
    /\ painted' = Some(widgets)
    /\ painted_nok' = nok
    /\ new_paints' = <<>>
    /\ plock' = "none"
    /\ wlock' = "none"
    /\ dpc' = "recv"
    /\ UNCHANGED <<widgets, chan>>
    /\ UNCHANGED <<rvars, rhist, mvars>>

-----------------------------------------------------------------------------
(* The main thread's event loop: bin/bergamot.rs 184-230.                  *)

\* match evt.detail()
MouseButtonOf(detail) ==
    CASE detail = 1 -> Some("left")
      [] detail = 2 -> Some("middle")
      [] detail = 3 -> Some("right")
      [] detail = 4 -> Some("scrollUp")
      [] detail = 5 -> Some("scrollDown")
      [] detail = 6 -> Some("scrollLeft")
      [] detail = 7 -> Some("scrollRight")
      [] OTHER -> None

min_by_width_first(best, rest) ==
    IF rest = <<>> THEN best ELSE Some(Head(rest))

RECURSIVE min_by_width_last(_, _)
min_by_width_last(best, rest) ==
    IF rest = <<>> THEN best
    ELSE LET p == Head(rest)
         IN  IF best = None \/ (p.right - p.left) <= (best[1].right - best[1].left)
             THEN min_by_width_last(Some(p), Tail(rest))
             ELSE min_by_width_last(best, Tail(rest))

\* Iterator::min_by over the widths: the first of the elements of least
\* width (a later element replaces the minimum only if strictly less).
RECURSIVE min_by_width(_, _)
min_by_width(best, rest) ==
    IF rest = <<>> THEN best
    ELSE LET p == Head(rest)
         IN  IF best = None \/ (p.right - p.left) < (best[1].right - best[1].left)
             THEN min_by_width(Some(p), Tail(rest))
             ELSE min_by_width(best, Tail(rest))

\* The filter of the hit test.
Hit(p, win, x) == p.win = win /\ p.left <= x /\ p.right >= x

\* paints.iter().filter(..).min_by(..); x is event_x converted to f64.
HitTest(ps, win, x) ==
    min_by_width(None, SelectSeq(ps, LAMBDA p : Hit(p, win, x)))

Handlers_any_button(area, button) == area.on_click

\* The handlers whose output is printed.
Handlers(area, button) ==
    SelectSeq(area.on_click, LAMBDA h : h.button = button)

\* The lines printed for the Paint chosen, if any.
Printed(paint, detail) ==
    IF paint = None THEN <<>>
    ELSE LET button == MouseButtonOf(detail)
         IN  IF button = None THEN <<>>
             ELSE Map(LAMBDA h : h.output, Handlers(paint[1].area, button[1]))

MainEvent_redraw_unless_press(e) ==
    /\ mpc = "wait"
    /\ evt' = e
    /\ IF e.kind # "ButtonPress"
       THEN /\ chan < MaxPending
            /\ chan' = chan + 1
            /\ mpc' = "flush"
       ELSE /\ chan' = chan
            /\ mpc' = "lock_paints"
    /\ UNCHANGED <<widgets, wlock, paints, plock, selected, emitted,
                   painted, painted_nok>>
    /\ UNCHANGED <<rvars, rhist, dvars>>

\* conn.wait_for_event() returns an X event.  Expose sends a notification;
\* any event but ButtonPress goes straight to the flush after the match.
MainEvent(e) ==
    /\ mpc = "wait"
    /\ evt' = e
    /\ IF e.kind = "Expose"
       THEN /\ chan < MaxPending
            /\ chan' = chan + 1
            /\ mpc' = "flush"
       ELSE /\ chan' = chan
            /\ mpc' = IF e.kind = "ButtonPress" THEN "lock_paints" ELSE "flush"
    /\ UNCHANGED <<widgets, wlock, paints, plock, selected, emitted,
                   painted, painted_nok>>
    /\ UNCHANGED <<rvars, rhist, dvars>>

\* let paints = paints.lock().unwrap();
MainLockPaints ==
    /\ mpc = "lock_paints"
    /\ plock = "none"
    /\ plock' = "main"
    /\ mpc' = "hit"
    /\ UNCHANGED <<widgets, wlock, paints, chan, evt, selected, emitted,
                   painted, painted_nok>>
    /\ UNCHANGED <<rvars, rhist, dvars>>

MainHit_reads_widgets ==
    /\ mpc = "hit"
    /\ wlock = "none"
    /\ LET paint == HitTest(paints, evt.win, Px(evt.x))
       IN  /\ selected' = paint
           /\ emitted' = Printed(paint, evt.detail)
    /\ mpc' = "release"
    /\ UNCHANGED <<widgets, wlock, paints, plock, chan, evt,
                   painted, painted_nok>>
    /\ UNCHANGED <<rvars, rhist, dvars>>

\* The hit test and the println! of the handlers, under the lock.
MainHit ==
    /\ mpc = "hit"
    /\ LET paint == HitTest(paints, evt.win, Px(evt.x))
       IN  /\ selected' = paint
           /\ emitted' = Printed(paint, evt.detail)
    /\ mpc' = "release"
    /\ UNCHANGED <<widgets, wlock, paints, plock, chan, evt,
                   painted, painted_nok>>
    /\ UNCHANGED <<rvars, rhist, dvars>>

\* The MutexGuard is dropped at the end of the match arm.
MainRelease ==
    /\ mpc = "release"
    /\ plock' = "none"
    /\ mpc' = "flush"
    /\ UNCHANGED <<widgets, wlock, paints, chan, evt, selected, emitted,
                   painted, painted_nok>>
    /\ UNCHANGED <<rvars, rhist, dvars>>

\* conn.0.flush() after the match; the next iteration starts.
MainFlush ==
    /\ mpc = "flush"
    /\ mpc' = "wait"
    /\ evt' = NoEvent
    /\ selected' = None
    /\ emitted' = <<>>
    /\ UNCHANGED <<widgets, wlock, paints, plock, chan, painted, painted_nok>>
    /\ UNCHANGED <<rvars, rhist, dvars>>

-----------------------------------------------------------------------------
(* Specifications.                                                         *)

Reader ==
    \/ \E l \in Lines : ReadLine(l)
    \/ Decode
    \/ RejectUntagged
    \/ ReaderLock
    \/ ApplyUpdate
    \/ ApplyDraw
    \/ ReaderUnlock
    \/ ReaderEof

Drawer ==
    \/ DrawRecv
    \/ DrawLockWidgets
    \/ DrawDisplay
    \/ DrawFlush
    \/ DrawLockPaints
    \/ DrawReplace

Main ==
    \/ \E e \in Events : MainEvent(e)
    \/ MainLockPaints
    \/ MainHit
    \/ MainRelease
    \/ MainFlush

\* The state after main has spawned both threads.
Init ==
    /\ widgets = <<>>
    /\ wlock = "none"
    /\ paints = <<>>
    /\ plock = "none"
    /\ chan = 0
    /\ rpc = "wait"
    /\ line = NoLine
    /\ cmd = NoCommand
    /\ dpc = "recv"
    /\ new_paints = <<>>
    /\ mpc = "wait"
    /\ evt = NoEvent
    /\ selected = None
    /\ emitted = <<>>
    /\ rres = "none"
    /\ before = [widgets |-> <<>>, nsent |-> 0, rres |-> "none"]
    /\ nlines = 0
    /\ nsent = 0
    /\ nok = 0
    /\ painted = None
    /\ painted_nok = 0

\* The whole program.
Next == Reader \/ Drawer \/ Main

Spec == Init /\ [][Next]_vars

\* The command protocol: the stdin and draw threads, while no X event
\* arrives.
NextCmd == Reader \/ Drawer

SpecCmd == Init /\ [][NextCmd]_vars

\* The state after the first line, a Draw of any list of palette widgets,
\* has been handled and stdin has been closed.
InitInstalled ==
    /\ widgets \in SeqsUpTo(WidgetPalette, MaxWidgets)
    /\ wlock = "none"
    /\ paints = <<>>
    /\ plock = "none"
    /\ chan = 1
    /\ rpc = "done"
    /\ line = DrawLine(widgets)
    /\ cmd = from_str(line).command
    /\ dpc = "recv"
    /\ new_paints = <<>>
    /\ mpc = "wait"
    /\ evt = NoEvent
    /\ selected = None
    /\ emitted = <<>>
    /\ rres = "drawn"
    /\ before = [widgets |-> <<>>, nsent |-> 0, rres |-> "none"]
    /\ nlines = 1
    /\ nsent = 1
    /\ nok = 1
    /\ painted = None
    /\ painted_nok = 0

\* Redraws and clicks on an installed widget list: the draw and main
\* threads, after stdin has been closed.
NextBar == Drawer \/ Main

SpecBar == InitInstalled /\ [][NextBar]_vars

\* Redraws of an installed widget list: the draw thread, and the main thread
\* while the only events are Expose and events it ignores.
MainQuiet ==
    \/ \E e \in {Expose, OtherEvent} : MainEvent(e)
    \/ MainFlush

NextLayout == Drawer \/ MainQuiet

SpecLayout == InitInstalled /\ [][NextLayout]_vars

\* The three threads together, on a small choice of lines and events: a Draw
\* of one widget, an Update of that widget, an Update without a tag, a line
\* that is no command; Expose, an ignored event, a left press on output 1.
CoreLines ==
    { DrawLine(<< Widget("a", "left", <<AreaL>>, <<>>) >>),
      UpdateLine("a", <<AreaB, AreaD>>),
      UpdateLine("", <<>>),
      [type |-> "not json"] }

CoreEvents == { Expose, OtherEvent, ButtonPress(windows[2].win, 50, 1) }

ReaderCore ==
    \/ \E l \in CoreLines : ReadLine(l)
    \/ Decode
    \/ RejectUntagged
    \/ ReaderLock
    \/ ApplyUpdate
    \/ ApplyDraw
    \/ ReaderUnlock
    \/ ReaderEof

\* The steps of the main thread that handle an event already received.
MainHandle ==
    \/ MainLockPaints
    \/ MainHit
    \/ MainRelease
    \/ MainFlush

MainCore ==
    \/ \E e \in CoreEvents : MainEvent(e)
    \/ MainHandle

NextCore == ReaderCore \/ Drawer \/ MainCore

SpecCore == Init /\ [][NextCore]_vars

\* The steps of the stdin thread that handle a line already read.
ReaderHandle ==
    \/ Decode
    \/ RejectUntagged
    \/ ReaderLock
    \/ ApplyUpdate
    \/ ApplyDraw
    \/ ReaderUnlock

\* The steps of the draw thread around the call of display.
DrawerAround ==
    \/ DrawRecv
    \/ DrawLockWidgets
    \/ DrawFlush
    \/ DrawLockPaints
    \/ DrawReplace

\* The call of display returns: DrawDisplay is enabled exactly while
\* dpc = "display" and is the only step that leaves it, so this is
\* WF_vars(DrawDisplay), written without ENABLED.
DisplayReturns == []<>(dpc # "display")

\* The three threads under a fair scheduler: a thread that can take a step
\* of its code takes it, and a thread blocked in lock() gets the mutex if it
\* is released again and again.  Nothing is assumed about the arrival of
\* lines and events.
FairCore ==
    /\ SpecCore
    /\ SF_vars(ReaderHandle)
    /\ SF_vars(DrawerAround)
    /\ DisplayReturns
    /\ SF_vars(MainHandle)

\* Widget lists whose Areas have the same measured width (100 px under the
\* 12 pt font, 55 px under the 9 pt font) and overlap on every output.
AreaM == Area("MMMMMMMMM", NoColours, << ClickHandler("left", "m1") >>)
AreaR == Area("RRRRRRRRR", NoColours, << ClickHandler("left", "r2") >>)

TieStores ==
    { << Widget("g", "center", <<AreaM>>, <<>>),
         Widget("e", "left",   <<AreaL>>, <<>>) >>,
      << Widget("g", "center", <<AreaM>>, <<>>),
         Widget("f", "right",  <<AreaR>>, <<>>) >>,
      << Widget("e", "left",   <<AreaL>>, <<>>),
         Widget("f", "right",  <<AreaR>>, <<>>) >> }

\* The state after the first line, a Draw of one of these lists, has been
\* handled and stdin has been closed.
InitTie ==
    /\ widgets \in TieStores
    /\ wlock = "none"
    /\ paints = <<>>
    /\ plock = "none"
    /\ chan = 1
    /\ rpc = "done"
    /\ line = DrawLine(widgets)
    /\ cmd = from_str(line).command
    /\ dpc = "recv"
    /\ new_paints = <<>>
    /\ mpc = "wait"
    /\ evt = NoEvent
    /\ selected = None
    /\ emitted = <<>>
    /\ rres = "drawn"
    /\ before = [widgets |-> <<>>, nsent |-> 0, rres |-> "none"]
    /\ nlines = 1
    /\ nsent = 1
    /\ nok = 1
    /\ painted = None
    /\ painted_nok = 0

\* Redraws and clicks on such a list.
SpecTie == InitTie /\ [][NextBar]_vars

TypeOK ==
    /\ wlock \in {"none", "stdin", "draw"}
    /\ plock \in {"none", "draw", "main"}
    /\ chan \in Nat

-----------------------------------------------------------------------------
(* Properties of the command protocol (SpecCmd).                           *)

\* The handling of `line` has run to its end: no effect of it is still to
\* come.  Only the stdin thread writes widgets, so before.widgets is the
\* list as the command found it.
Handled == line # NoLine /\ rpc \in {"unlock", "wait", "done"}

TagKnown(ws, tag) == \E i \in 1..Len(ws) : ws[i].tag = tag

\* A line that was read as text and is no command.
Malformed(l) == l.type \notin {"none", "unreadable", "draw", "update"}

\* C1: once a Draw carrying the list ws has been handled, the widget list is
\* exactly ws, in order, whatever it held before, and the Draw has succeeded.
C1_DrawReplaces ==
    (Handled /\ line.type = "draw")
        => /\ widgets = line.widgets
           /\ rres = "drawn"
           /\ nsent = before.nsent + 1

\* A Draw of one widget handled on a list that held one other widget, put
\* there by an earlier Draw.
C1_Witness ==
    /\ Handled
    /\ line.type = "draw"
    /\ before.rres = "drawn"
    /\ Len(before.widgets) = 1
    /\ Len(line.widgets) = 1
    /\ before.widgets[1] # line.widgets[1]
    /\ widgets = line.widgets

\* C2: an Update with a non-empty tag that a widget of the list carries
\* replaces the content of one widget with that tag and nothing else: the
\* widget keeps its position, tag, alignment and constraints, the list keeps
\* its length and every other widget is unchanged.
C2_UpdateFrame ==
    (Handled /\ line.type = "update" /\ line.tag # ""
             /\ TagKnown(before.widgets, line.tag))
        => /\ Len(widgets) = Len(before.widgets)
           /\ \E i \in 1..Len(widgets) :
                /\ before.widgets[i].tag = line.tag
                /\ widgets[i].content = line.content
                /\ widgets[i].tag = before.widgets[i].tag
                /\ widgets[i].alignment = before.widgets[i].alignment
                /\ widgets[i].constraints = before.widgets[i].constraints
                /\ \A j \in 1..Len(widgets) :
                     j # i => widgets[j] = before.widgets[j]

\* An Update that changed the second of two widgets.
C2_Witness ==
    /\ Handled
    /\ line.type = "update"
    /\ rres = "updated"
    /\ Len(widgets) = 2
    /\ widgets[2].tag = line.tag
    /\ widgets[1].tag # line.tag
    /\ widgets[2].content = line.content
    /\ widgets[2].content # before.widgets[2].content
    /\ widgets[1].content # line.content

\* C3: an Update whose tag is empty, or is the tag of no widget of the list,
\* changes nothing: the list is as before, no notification is sent, the
\* refusal is reported, and an Update with the empty tag never takes the lock.
C3_UpdateNoOp ==
    /\ (Handled /\ line.type = "update"
                /\ (line.tag = "" \/ ~ TagKnown(before.widgets, line.tag)))
          => /\ widgets = before.widgets
             /\ nsent = before.nsent
             /\ rres = (IF line.tag = "" THEN "untagged" ELSE "no_such_widget")
    /\ (line.type = "update" /\ line.tag = "")
          => rpc \in {"decode", "match", "wait", "done"}

\* An Update with the empty tag refused while the list holds a widget whose
\* tag is empty, and the stdin thread back at waiting for a line.
C3_Witness ==
    /\ rpc = "wait"
    /\ line.type = "update"
    /\ line.tag = ""
    /\ rres = "untagged"
    /\ TagKnown(widgets, "")
    /\ line.content # widgets[1].content

\* C4: the stdin thread has sent as many notifications as commands have
\* succeeded, and the handling of one line sends one notification if the
\* command succeeds and none otherwise.
C4_OneNotificationPerSuccess ==
    /\ nsent = nok
    /\ Handled =>
         nsent - before.nsent =
            (IF ~ Malformed(line) /\ Succeeds(line, before.widgets)
             THEN 1 ELSE 0)

\* A Draw and then an Update have succeeded and two notifications were sent.
C4_Witness ==
    /\ Handled
    /\ nlines = 2
    /\ rres = "updated"
    /\ before.rres = "drawn"
    /\ nok = 2
    /\ nsent = 2

\* The list a command leaves, by the interface: a Draw leaves its own list,
\* an Update that succeeds the list with the content of the first widget
\* carrying the tag replaced, any other Update the list as it was.
ExpectedStore(c, ws) ==
    IF c.type = "draw" THEN c.widgets
    ELSE IF ~ Succeeds(c, ws) THEN ws
    ELSE LET i == CHOOSE k \in 1..Len(ws) :
                    /\ ws[k].tag = c.tag
                    /\ \A j \in 1..(k - 1) : ws[j].tag # c.tag
         IN  [ws EXCEPT ![i].content = c.content]

\* C5: a line that does not decode is reported and otherwise ignored: the
\* list is unchanged, nothing is sent, the thread neither takes the lock nor
\* ends, and the command of the line after it has its usual effect.
C5_DecodeFailure ==
    /\ (Malformed(line) /\ rpc # "decode")
          => /\ rpc \in {"wait", "done"}
             /\ rres = "decode_error"
             /\ widgets = before.widgets
             /\ nsent = before.nsent
    /\ (Handled /\ before.rres = "decode_error" /\ ~ Malformed(line))
          => /\ widgets = ExpectedStore(line, before.widgets)
             /\ nsent = before.nsent
                          + (IF Succeeds(line, before.widgets) THEN 1 ELSE 0)

\* A Draw applied as the line after one that did not decode.
C5_Witness ==
    /\ Handled
    /\ nlines = 2
    /\ before.rres = "decode_error"
    /\ line.type = "draw"
    /\ widgets = line.widgets
    /\ widgets # <<>>
    /\ rres = "drawn"

-----------------------------------------------------------------------------
(* Properties of the hit test (SpecBar) and of the layout (SpecLayout).     *)

\* The Paints of ps a press at x (pixels) on window win hits: their indices.
Matching(ps, win, x) ==
    {k \in 1..Len(ps) :
        ps[k].win = win /\ ps[k].left <= Px(x) /\ Px(x) <= ps[k].right}

PaintWidth(p) == p.right - p.left

\* C6: while the main thread still holds the lock after the hit test of a
\* ButtonPress, the Paint selected is one of the Paints of the pressed window
\* whose range contains x and none of these is narrower; if there is none,
\* nothing is selected and nothing is printed.
C6_NarrowestHit ==
    mpc = "release" =>
        LET M == Matching(paints, evt.win, evt.x)
        IN  IF M = {}
            THEN selected = None /\ emitted = <<>>
            ELSE \E k \in M :
                    /\ selected = Some(paints[k])
                    /\ \A j \in M : PaintWidth(paints[k]) <= PaintWidth(paints[j])

\* A press at x = 50 with Paints [0,100] and [40,60] on the pressed window
\* and a Paint containing x on another window: [40,60] is selected.
C6_Witness ==
    /\ mpc = "release"
    /\ evt.x = 50
    /\ selected # None
    /\ selected[1].left = Px(40)
    /\ selected[1].right = Px(60)
    /\ \E k \in 1..Len(paints) :
          /\ paints[k].win = evt.win
          /\ paints[k].left = Px(0)
          /\ paints[k].right = Px(100)
    /\ \E k \in 1..Len(paints) :
          /\ paints[k].win # evt.win
          /\ paints[k].left <= Px(50)
          /\ paints[k].right >= Px(50)

\* The button a ButtonPress detail stands for in the X protocol.
ButtonName(detail) ==
    << "left", "middle", "right", "scrollUp", "scrollDown", "scrollLeft",
       "scrollRight" >>[detail]

\* The n-th smallest element of a set of numbers.
Nth(S, n) == CHOOSE i \in S : Cardinality({j \in S : j < i}) = n - 1

\* C7: when a ButtonPress has selected a Paint, the lines printed are the
\* outputs of the handlers of that Paint's Area whose button is the pressed
\* one, one line per handler, in the order of the handler list.
C7_HandlersOfButton ==
    (mpc = "release" /\ selected # None) =>
        LET hs  == selected[1].area.on_click
            idx == IF evt.detail \in 1..7
                   THEN {i \in 1..Len(hs) : hs[i].button = ButtonName(evt.detail)}
                   ELSE {}
        IN  /\ Len(emitted) = Cardinality(idx)
            /\ \A n \in 1..Len(emitted) : emitted[n] = hs[Nth(idx, n)].output

\* A left press on an Area with two left handlers around a right handler,
\* while another Area with a left handler is painted too.
C7_Witness ==
    /\ mpc = "release"
    /\ selected # None
    /\ evt.detail = 1
    /\ emitted = <<"l1", "l2">>
    /\ Len(selected[1].area.on_click) = 3
    /\ \E k \in 1..Len(paints) :
          /\ paints[k].area # selected[1].area
          /\ \E i \in 1..Len(paints[k].area.on_click) :
                paints[k].area.on_click[i].button = "left"

\* The placements of the redraw that produced the content of paints.
PaintedPlacements == Placements(windows, painted[1])

\* paints is the list of the Paints of those placements, and each placement
\* names the widget and the Area its Paint was made from.
PlacementsMatch ==
    LET pl == PaintedPlacements
    IN  /\ Len(paints) = Len(pl)
        /\ \A k \in 1..Len(pl) :
              /\ paints[k] = pl[k].paint
              /\ pl[k].widx \in 1..Len(painted[1])
              /\ pl[k].aidx \in 1..Len(painted[1][pl[k].widx].content)
              /\ paints[k].area = painted[1][pl[k].widx].content[pl[k].aidx]
              /\ pl[k].output_no + 1 \in 1..Len(windows)
              /\ paints[k].win = windows[pl[k].output_no + 1].win

\* The monitor numbers of a widget's constraints.
MonitorSet(w) == {w.constraints[c] : c \in 1..Len(w.constraints)}

\* C8: in the Paints of a redraw, a Paint made from a widget with monitor
\* constraints is on the window of an output whose index is one of them, and
\* every Area of a widget without constraints has a Paint on every output.
C8_MonitorConstraints ==
    painted # None =>
        LET ws == painted[1]
            pl == PaintedPlacements
        IN  /\ PlacementsMatch
            /\ \A k \in 1..Len(pl) :
                  MonitorSet(ws[pl[k].widx]) # {}
                     => \E m \in MonitorSet(ws[pl[k].widx]) :
                           /\ m + 1 \in 1..Len(windows)
                           /\ paints[k].win = windows[m + 1].win
            /\ \A i \in 1..Len(ws) :
                  MonitorSet(ws[i]) = {}
                     => \A j \in 1..Len(ws[i].content), o \in 1..Len(windows) :
                           \E k \in 1..Len(pl) :
                              /\ pl[k].widx = i
                              /\ pl[k].aidx = j
                              /\ paints[k].win = windows[o].win

\* With outputs 0, 1 and 2, a widget constrained to monitor 1 beside a widget
\* without constraints: the first has Paints on output 1 and on no other.
C8_Witness ==
    /\ painted # None
    /\ Len(windows) = 3
    /\ Len(painted[1]) = 2
    /\ painted[1][1].constraints = <<>>
    /\ painted[1][2].constraints = <<1>>
    /\ LET pl == PaintedPlacements
       IN  /\ \E k \in 1..Len(pl) :
                 pl[k].widx = 2 /\ paints[k].win = windows[2].win
           /\ \A k \in 1..Len(pl) :
                 pl[k].widx = 2 => paints[k].win = windows[2].win
           /\ \E k \in 1..Len(pl) :
                 pl[k].widx = 1 /\ paints[k].win = windows[1].win

\* The placements of alignment al on output o (1-based), in the order of
\* the list of Paints.
AlignedOn(pl, ws, o, al) ==
    SelectSeq(pl, LAMBDA x : x.output_no = o - 1
                             /\ ws[x.widx].alignment = al)

\* Whether the monitor constraints of w let it appear on output o (1-based).
AppearsOn(w, o) == MonitorSet(w) = {} \/ (o - 1) \in MonitorSet(w)

\* Position (widget, area) a comes before position b in the widget list.
Earlier(a, b) == a.widx < b.widx \/ (a.widx = b.widx /\ a.aidx < b.aidx)

\* C9: on every output, the rectangles of the left-aligned widgets that
\* appear on it, one per Area, are in the order of the widget list, the first
\* starts at x = 0, each ends where the next begins, and each has the
\* measured width of its Area (so a widget spans the sum of its Areas).
C9_LeftContiguous ==
    painted # None =>
        LET ws == painted[1]
            pl == PaintedPlacements
        IN  /\ PlacementsMatch
            /\ \A o \in 1..Len(windows) :
                  LET L == AlignedOn(pl, ws, o, "left")
                  IN  /\ L # <<>> => L[1].paint.left = 0
                      /\ \A n \in 1..Len(L) :
                            PaintWidth(L[n].paint)
                               = LayoutNew(windows[o], L[n].paint.area).width
                      /\ \A n \in 1..(Len(L) - 1) :
                            /\ L[n].paint.right = L[n + 1].paint.left
                            /\ Earlier(L[n], L[n + 1])
                      /\ \A i \in 1..Len(ws) :
                            (ws[i].alignment = "left" /\ AppearsOn(ws[i], o))
                               => \A j \in 1..Len(ws[i].content) :
                                     \E n \in 1..Len(L) :
                                        L[n].widx = i /\ L[n].aidx = j

\* Three left-aligned rectangles on output 1: [0,100], [100,120], [120,160].
C9_Witness ==
    /\ painted # None
    /\ LET L == AlignedOn(PaintedPlacements, painted[1], 2, "left")
       IN  /\ Len(L) = 3
           /\ L[1].paint.left = Px(0)   /\ L[1].paint.right = Px(100)
           /\ L[2].paint.left = Px(100) /\ L[2].paint.right = Px(120)
           /\ L[3].paint.left = Px(120) /\ L[3].paint.right = Px(160)
           /\ \A n \in 1..3 : L[n].paint \in {paints[k] : k \in 1..Len(paints)}

\* C10: on every output, the first right-aligned rectangle in the order of
\* the widget list has its right edge at the output width, and each later
\* right-aligned rectangle ends where the one before it begins.
C10_RightToLeft ==
    painted # None =>
        \A o \in 1..Len(windows) :
            LET R == AlignedOn(PaintedPlacements, painted[1], o, "right")
            IN  /\ R # <<>> => R[1].paint.right = windows[o].rect.width
                /\ \A n \in 1..(Len(R) - 1) :
                      R[n + 1].paint.right = R[n].paint.left

\* The measured widths of a sequence of placements on output o (1-based).
MeasuredWidths(seq, o) ==
    [n \in 1..Len(seq) |-> LayoutNew(windows[o], seq[n].paint.area).width]

\* C11: on every output of width W, the rectangles of the center-aligned
\* widgets placed on it, of total measured width C, are in the order of the
\* widget list, the first starts at W/2 - C/2, each ends where the next
\* begins, and the last ends at W/2 + C/2.
C11_CenterRange ==
    painted # None =>
        \A o \in 1..Len(windows) :
            LET M == AlignedOn(PaintedPlacements, painted[1], o, "center")
                W == windows[o].rect.width
                C == SumSeq(MeasuredWidths(M, o))
            IN  M # <<>> =>
                   /\ M[1].paint.left = HalfOf(W) - HalfOf(C)
                   /\ M[Len(M)].paint.right = HalfOf(W) + HalfOf(C)
                   /\ \A n \in 1..(Len(M) - 1) :
                         /\ M[n].paint.right = M[n + 1].paint.left
                         /\ Earlier(M[n], M[n + 1])

\* The place of an alignment in the painting order of one output.
PaintRank(al) == CASE al = "left" -> 1 [] al = "right" -> 2 [] al = "center" -> 3

\* C12: in the Paints of a redraw, which are in the order the Areas were
\* filled and drawn, the Areas of one output come all left-aligned first,
\* then all right-aligned, then all center-aligned: every center-aligned Area
\* is painted after every left- and right-aligned Area of its output.
C12_CenterLast ==
    painted # None =>
        LET ws == painted[1]
            pl == PaintedPlacements
        IN  /\ PlacementsMatch
            /\ \A k1, k2 \in 1..Len(pl) :
                  (/\ pl[k1].output_no = pl[k2].output_no
                   /\ PaintRank(ws[pl[k1].widx].alignment)
                         < PaintRank(ws[pl[k2].widx].alignment))
                     => k1 < k2

\* A center-aligned widget listed before a left-aligned one whose rectangle
\* [0,100] covers its rectangle [40,60] on the same output: the center Paint
\* comes after the left Paint.
C12_Witness ==
    /\ painted # None
    /\ Len(painted[1]) = 2
    /\ painted[1][1].alignment = "center"
    /\ painted[1][2].alignment = "left"
    /\ \E k1, k2 \in 1..Len(paints) :
          /\ k1 < k2
          /\ paints[k1].win = paints[k2].win
          /\ paints[k1].area = painted[1][2].content[1]
          /\ paints[k2].area = painted[1][1].content[1]
          /\ paints[k1].left = Px(0)  /\ paints[k1].right = Px(100)
          /\ paints[k2].left = Px(40) /\ paints[k2].right = Px(60)

-----------------------------------------------------------------------------
(* Properties of the three threads together (SpecCore).                    *)

\* The list of Paints is empty as at the start, or it is the whole result of
\* display on the widget list read by the last pass that has ended.
RegistryIsBatch ==
    IF painted = None THEN paints = <<>>
    ELSE paints = display(windows, painted[1])

\* C13: in every state the list of Paints is the initial empty list or the
\* complete batch of the last redraw pass that ended, and a step changes it
\* only by the draw thread, holding the lock of the Paints, storing the
\* whole batch it computed from the widget list.
C13_ReplacedWhole ==
    /\ []RegistryIsBatch
    /\ [][paints' # paints
            => /\ plock = "draw"
               /\ plock' = "none"
               /\ paints' = new_paints
               /\ paints' = display(windows, widgets)]_vars

\* The main thread reads the Paints of the pass before, under the lock,
\* while the draw thread waits for that lock with a different batch computed
\* after an Update.
C13_Witness ==
    /\ mpc = "hit"
    /\ plock = "main"
    /\ dpc = "lock_paints"
    /\ paints # <<>>
    /\ new_paints # <<>>
    /\ new_paints # paints
    /\ rres = "updated"
    /\ RegistryIsBatch

\* C14: no two widgets of the widget list carry the same tag, unless the tag
\* is the empty one.
C14_UniqueTags ==
    \A i, j \in 1..Len(widgets) :
        (i # j /\ widgets[i].tag = widgets[j].tag) => widgets[i].tag = ""

\* C15: every Paint of the list of Paints, and of the batch a pass is about
\* to store, has left <= right.
C15_LeftLeRight ==
    /\ \A k \in 1..Len(paints) : paints[k].left <= paints[k].right
    /\ \A k \in 1..Len(new_paints) : new_paints[k].left <= new_paints[k].right

\* On an output 100 wide, a left-aligned rectangle [0,100] and a
\* right-aligned rectangle [80,100]: the left cursor has passed the right
\* one.
C15_Witness ==
    /\ painted # None
    /\ \E o \in 1..Len(windows) :
          LET L == AlignedOn(PaintedPlacements, painted[1], o, "left")
              R == AlignedOn(PaintedPlacements, painted[1], o, "right")
          IN  /\ windows[o].rect.width = Px(100)
              /\ L # <<>>
              /\ R # <<>>
              /\ L[Len(L)].paint.right = Px(100)
              /\ R[1].paint.left = Px(80)
              /\ L[Len(L)].paint \in {paints[k] : k \in 1..Len(paints)}
              /\ R[1].paint \in {paints[k] : k \in 1..Len(paints)}

\* C16: once stdin has been closed the stdin thread stays ended and the
\* widget list never changes; an Expose whose notification finds the draw
\* thread idle leads to a pass that lays out the widget list as it was left,
\* and a ButtonPress leads to its hit test on the Paints and to the printing
\* of the handlers.
C16_AfterEof ==
    /\ [][rpc = "done" => (rpc' = "done" /\ widgets' = widgets)]_vars
    /\ (rpc = "done" /\ evt = Expose /\ mpc = "flush" /\ chan > 0 /\ dpc = "recv")
          ~> (/\ rpc = "done"
              /\ dpc = "replace"
              /\ new_paints = display(windows, widgets))
    /\ (rpc = "done" /\ evt.kind = "ButtonPress" /\ mpc = "lock_paints")
          ~> (/\ rpc = "done"
              /\ mpc = "release"
              /\ selected = HitTest(paints, evt.win, Px(evt.x))
              /\ emitted = Printed(selected, evt.detail))

\* After a Draw and the end of stdin: a press prints the handlers of the
\* widget drawn while a second pass over the same widget list, asked for by
\* an Expose, is under way.
C16_Witness ==
    /\ rpc = "done"
    /\ nlines = 1
    /\ widgets # <<>>
    /\ painted = Some(widgets)
    /\ dpc = "lock_paints"
    /\ new_paints = paints
    /\ mpc = "release"
    /\ emitted = <<"l1", "l2">>

\* An X event the match of the event loop has no arm for.
Ignored(e) == e.kind \notin {"none", "Expose", "ButtonPress"}

\* C17: the step that receives an event that is neither Expose nor
\* ButtonPress sends no notification, prints nothing, takes no lock and
\* leaves the widget list and the Paints alone; the main thread's next step
\* is the flush that takes it back to wait_for_event, again without any of
\* these effects.
C17_OtherIgnored ==
    [][/\ (mpc = "wait" /\ Ignored(evt'))
            => /\ mpc' = "flush"
               /\ emitted' = <<>>
               /\ selected' = None
               /\ UNCHANGED <<chan, widgets, paints, wlock, plock>>
       /\ (Ignored(evt) /\ mpc' # mpc)
            => /\ mpc = "flush"
               /\ mpc' = "wait"
               /\ evt' = NoEvent
               /\ emitted' = <<>>
               /\ UNCHANGED <<chan, widgets, paints, wlock, plock>>]_vars

\* An ignored event is being handled while the Paints of a pass are in place
\* and no notification is pending.
C17_Witness ==
    /\ evt = OtherEvent
    /\ mpc = "flush"
    /\ paints # <<>>
    /\ widgets # <<>>
    /\ chan = 0
    /\ dpc = "recv"
    /\ emitted = <<>>

\* No notification is waiting, the draw thread is blocked in recv, and the
\* widget list is not in the middle of a command (its lock is not held by
\* the stdin thread).
Quiescent == chan = 0 /\ dpc = "recv" /\ wlock # "stdin"

Threads == {"stdin", "draw", "main"}

\* The mutex thread t is about to take with lock(), if it is at a lock().
WaitsFor(t) ==
    CASE t = "stdin" -> IF rpc = "match" /\ ~ IsUntagged(cmd)
                        THEN "widgets" ELSE "none"
      [] t = "draw"  -> IF dpc = "lock_widgets" THEN "widgets"
                        ELSE IF dpc = "lock_paints" THEN "paints" ELSE "none"
      [] t = "main"  -> IF mpc = "lock_paints" THEN "paints" ELSE "none"
      [] OTHER       -> "none"

\* The thread that holds the mutex t waits for, "none" if t is at no lock()
\* or the mutex is free.
BlockedBy(t) ==
    CASE WaitsFor(t) = "widgets" -> wlock
      [] WaitsFor(t) = "paints"  -> plock
      [] OTHER                   -> "none"

\* Whether thread t has a step of its own code to take.
CanStep(t) ==
    CASE t = "stdin" -> ENABLED ReaderHandle
      [] t = "draw"  -> dpc = "display" \/ ENABLED DrawerAround
      [] t = "main"  -> ENABLED MainHandle

\* C19: no thread is, through one, two or three waits for a mutex held by
\* the next thread, waiting for itself; and every thread that holds a mutex
\* and is at no lock() has a step to take, so every chain of waits ends at a
\* thread that runs on to the end of its critical section.
C19_NoDeadlock ==
    /\ \A t \in Threads :
          t \notin { BlockedBy(t), BlockedBy(BlockedBy(t)),
                     BlockedBy(BlockedBy(BlockedBy(t))) }
    /\ \A t \in Threads :
          ((wlock = t \/ plock = t) /\ WaitsFor(t) = "none") => CanStep(t)

\* The longest chain: the stdin thread waits for the widgets lock held by
\* the draw thread, which waits for the paints lock held by the main thread.
C19_Witness ==
    /\ BlockedBy("stdin") = "draw"
    /\ BlockedBy("draw") = "main"
    /\ WaitsFor("main") = "none"
    /\ CanStep("main")

\* C20: in every state each thread holds at most one of the two mutexes.
C20_AtMostOneLock ==
    \A t \in Threads : ~ (wlock = t /\ plock = t)

\* The draw thread is in display (the cairo and pango calls) or in the flush
\* of the X connection that follows it.
InCanvasOrFlush == dpc \in {"display", "flush"}

\* C21: the draw thread does not hold the lock of the widget list while it
\* is in a canvas call or in the flush of the connection.
C21_NoLockAcrossCanvas ==
    InCanvasOrFlush => wlock # "draw"

\* The widget list without the widgets the monitor constraints keep off the
\* output with index output_no.
Kept(ws, output_no) == SelectSeq(ws, LAMBDA w : ~ Skipped(w, output_no))

\* The Paints of a pass in which every output lays out only the widgets
\* that appear on it.
PaintsOfKept(outs, ws) ==
    Map(LAMBDA pl : pl.paint,
        Concat([i \in 1..Len(outs) |->
                   DisplayOutput(i - 1, outs[i], Kept(ws, i - 1))]))

\* C22: the Paints of a redraw are those the same redraw computes when, for
\* each output, the widgets excluded from it by their monitor constraints
\* are first removed from the widget list.
C22_ExcludedTakeNoSpace ==
    painted # None => paints = PaintsOfKept(windows, painted[1])

\* The positions of the Paints that match a press and are as narrow as any
\* Paint that matches it.
Narrowest(ps, win, x) ==
    LET M == Matching(ps, win, x)
    IN  {k \in M : \A j \in M : PaintWidth(ps[k]) <= PaintWidth(ps[j])}

\* C23: while the main thread still holds the lock after the hit test of a
\* ButtonPress that some Paint matches, the Paint selected is the one at the
\* least position, in the list of Paints, among the narrowest Paints that
\* match, and the lines printed are those of its handlers.
C23_FirstOfNarrowest ==
    (mpc = "release" /\ Matching(paints, evt.win, evt.x) # {})
        => LET N == Narrowest(paints, evt.win, evt.x)
               first == CHOOSE k \in N : \A j \in N : k <= j
           IN  /\ selected = Some(paints[first])
               /\ emitted = Printed(Some(paints[first]), evt.detail)

\* A left press at x = 50 on the 200-wide output, where the left-aligned
\* Paint [0,100] and the center-aligned Paint [50,150], painted after it,
\* both match and are equally wide: the left-aligned one is selected and its
\* handlers are printed.
C23_Witness ==
    /\ mpc = "release"
    /\ evt = ButtonPress(windows[2].win, 50, 1)
    /\ painted = Some(widgets)
    /\ widgets[1].alignment = "center"
    /\ widgets[2].alignment = "left"
    /\ \E k1, k2 \in Narrowest(paints, evt.win, evt.x) :
          /\ k1 < k2
          /\ paints[k1].area = AreaL
          /\ paints[k1].left = Px(0)  /\ paints[k1].right = Px(100)
          /\ paints[k2].area = AreaM
          /\ paints[k2].left = Px(50) /\ paints[k2].right = Px(150)
          /\ selected = Some(paints[k1])
    /\ emitted = <<"l1", "l2">>

====
